---- MODULE Spec2Model ----
(***************************************************************************)
(* Model of python/autotune/autotune.py: the sweep of do_tuning over       *)
(* operation x precision x device x layout, the device selector, the       *)
(* operation descriptor table and the two tuning drivers.                  *)
(*                                                                         *)
(* Python values are modelled as follows.  A ConfigObj scalar is           *)
(* Str(s) == [t |-> "str", s |-> s]; a comma separated value is            *)
(* List(q) == [t |-> "list", l |-> q] with q a sequence of TLA+ strings.   *)
(* A float is a rational [num, den, exp] meaning num/den * 10^exp.         *)
(* An exception that leaves do_tuning is recorded in crash.                *)
(***************************************************************************)
EXTENDS Integers, Sequences, FiniteSets, TLC

VARIABLES
    platform,       \* what cl.get_platforms()/get_devices() enumerates
    config,         \* top-level scalar keys of the configuration file
    viennacl_root,  \* the --viennacl-root argument of do_tuning
    opIdx,          \* number of operations the loop of line 47 has taken
    operation,      \* loop variable of line 47
    p,              \* config[operation] (line 49)
    enumerated,     \* whether line 51 has enumerated the devices before
    devices,        \* line 57
    datatypes,      \* line 61
    pairIdx,        \* number of (datatype, device) pairs taken (line 63)
    datatype,       \* loop variable of line 63
    device,         \* loop variable of line 63 / line 66
    layouts,        \* lines 120-122, 133-135
    layIdx,         \* number of layouts taken (lines 123, 136)
    profile,        \* line 85
    pc,             \* position in do_tuning
    crash,          \* exception that left do_tuning, "none" while running
    calls,          \* external calls and diagnostics of the current operation
    sel,            \* selector evaluation (lines 50-57 in isolation)
    perf            \* performance index evaluation (lines 23-41, 81, 90)

vars == << platform, config, viennacl_root, opIdx, operation, p, enumerated,
           devices, datatypes, pairIdx, datatype, device, layouts, layIdx,
           profile, pc, crash, calls, sel, perf >>

(***************************************************************************)
(* Bounds                                                                  *)
(***************************************************************************)
MaxDevices == 2
MaxSelDevices == 3
MaxTime == 2
MaxIndexList == 2

(***************************************************************************)
(* Python values                                                           *)
(***************************************************************************)
Str(s) == [t |-> "str", s |-> s]
List(q) == [t |-> "list", l |-> q]

SeqToSet(q) == { q[i] : i \in 1..Len(q) }

\* The characters of the strings the configurations below are made of.
Chars(s) ==
    CASE s = "0" -> << "0" >>
      [] s = "1" -> << "1" >>
      [] s = "2" -> << "2" >>
      [] s = "01" -> << "0", "1" >>
      [] s = "10" -> << "1", "0" >>
      [] s = "64" -> << "6", "4" >>
      [] s = "128" -> << "1", "2", "8" >>
      [] s = "192" -> << "1", "9", "2" >>
      [] s = "all" -> << "a", "l", "l" >>
      [] s = "gpus" -> << "g", "p", "u", "s" >>
      [] s = "cpus" -> << "c", "p", "u", "s" >>
      [] s = "accelerators" ->
           << "a", "c", "c", "e", "l", "e", "r", "a", "t", "o", "r", "s" >>
      [] s = "N" -> << "N" >>
      [] s = "T" -> << "T" >>
      [] s = "NN" -> << "N", "N" >>
      [] s = "NT" -> << "N", "T" >>
      [] s = "TN" -> << "T", "N" >>
      [] s = "TT" -> << "T", "T" >>
      [] s = "gpu" -> << "g", "p", "u" >>
      [] OTHER -> << >>

Digits == << "0", "1", "2", "3", "4", "5", "6", "7", "8", "9" >>
IsDigit(c) == \E d \in 1..10 : Digits[d] = c
DigitVal(c) == (CHOOSE d \in 1..10 : Digits[d] = c) - 1

\* int(s) of a string: the decimal value, or ValueError.
RECURSIVE DecVal(_, _)
DecVal(cs, acc) ==
    IF cs = << >> THEN acc ELSE DecVal(Tail(cs), 10 * acc + DigitVal(Head(cs)))
int(cs) ==
    IF cs # << >> /\ \A i \in 1..Len(cs) : IsDigit(cs[i])
    THEN [ok |-> TRUE, v |-> DecVal(cs, 0)]
    ELSE [ok |-> FALSE, v |-> 0]

\* map_to_list(T, x), lines 45-46, before T is applied: x if x is a list, else [x].
map_to_list(x) == IF x.t = "list" THEN x.l ELSE << x.s >>

(***************************************************************************)
(* Floats as exact rationals num/den * 10^exp                              *)
(***************************************************************************)
Rat(n) == [num |-> n, den |-> 1, exp |-> 0]
RatMul(a, b) == [num |-> a.num * b.num, den |-> a.den * b.den, exp |-> a.exp + b.exp]
RatDiv(a, b) == [num |-> a.num * b.den, den |-> a.den * b.num, exp |-> a.exp - b.exp]
RatEq(a, b) == a.exp = b.exp /\ a.num * b.den = b.num * a.den
Nano == [num |-> 1, den |-> 1, exp |-> 0 - 9]

(***************************************************************************)
(* Lines 20-41: DATATYPES and TYPES                                        *)
(***************************************************************************)
Operations ==
    << "vector-axpy", "matrix-axpy", "reduction", "row-wise-reduction", "matrix-product" >>

DATATYPES(k) ==
    CASE k = "single" -> "float32"
      [] k = "double" -> "float64"
      [] OTHER -> "KeyError"

itemsize(dt) == IF dt = "float64" THEN 8 ELSE 4

template(op) ==
    CASE op = "vector-axpy" -> "VectorAxpyTemplate"
      [] op = "matrix-axpy" -> "MatrixAxpyTemplate"
      [] op = "reduction" -> "ReductionTemplate"
      [] op = "row-wise-reduction" -> "RowWiseReductionTemplate"
      [] op = "matrix-product" -> "MatrixProductTemplate"

\* x = [itemsize, sizes, time]; the products are evaluated left to right.
perf_index_noitemsize(op, x) ==
    LET e == Rat(x[1])  s == x[2]  t == Rat(x[3]) IN
    CASE op = "vector-axpy" ->
           RatMul(RatDiv(RatMul(Rat(3), Rat(s[1])), t), Nano)
      [] op = "matrix-axpy" ->
           RatMul(RatDiv(RatMul(RatMul(Rat(3), Rat(s[1])), Rat(s[2])), t), Nano)
      [] op = "reduction" ->
           RatMul(RatDiv(RatMul(Rat(2), Rat(s[1])), t), Nano)
      [] op = "row-wise-reduction" ->
           RatMul(RatDiv(RatMul(Rat(s[1]), Rat(s[2])), t), Nano)
      [] op = "matrix-product" ->
           RatMul(RatDiv(RatMul(RatMul(RatMul(Rat(2), Rat(s[1])), Rat(s[2])), Rat(s[3])), t), Nano)

perf_index_allitemsize(op, x) ==
    LET e == Rat(x[1])  s == x[2]  t == Rat(x[3]) IN
    CASE op = "vector-axpy" ->
           RatMul(RatDiv(RatMul(RatMul(Rat(3), e), Rat(s[1])), t), Nano)
      [] op = "matrix-axpy" ->
           RatMul(RatDiv(RatMul(RatMul(RatMul(Rat(3), e), Rat(s[1])), Rat(s[2])), t), Nano)
      [] op = "reduction" ->
           RatMul(RatDiv(RatMul(RatMul(Rat(2), e), Rat(s[1])), t), Nano)
      [] op = "row-wise-reduction" ->
           RatMul(RatDiv(RatMul(RatMul(e, Rat(s[1])), Rat(s[2])), t), Nano)
      [] op = "matrix-product" ->
           RatMul(RatDiv(RatMul(RatMul(RatMul(RatMul(Rat(2), e), Rat(s[1])), Rat(s[2])), Rat(s[3])), t), Nano)

perf_index(op, x) ==
    LET e == Rat(x[1])  s == x[2]  t == Rat(x[3]) IN
    CASE op = "vector-axpy" ->
           RatMul(RatDiv(RatMul(RatMul(Rat(3), e), Rat(s[1])), t), Nano)
      [] op = "matrix-axpy" ->
           RatMul(RatDiv(RatMul(RatMul(RatMul(Rat(3), e), Rat(s[1])), Rat(s[2])), t), Nano)
      [] op = "reduction" ->
           RatMul(RatDiv(RatMul(RatMul(Rat(2), e), Rat(s[1])), t), Nano)
      [] op = "row-wise-reduction" ->
           RatMul(RatDiv(RatMul(RatMul(e, Rat(s[1])), Rat(s[2])), t), Nano)
      [] op = "matrix-product" ->
           RatMul(RatDiv(RatMul(RatMul(RatMul(Rat(2), Rat(s[1])), Rat(s[2])), Rat(s[3])), t), Nano)

perf_measure(op) == IF op = "matrix-product" THEN "GFLOP/s" ELSE "GB/s"

NDim(op) ==
    CASE op \in { "vector-axpy", "reduction" } -> 1
      [] op \in { "matrix-axpy", "row-wise-reduction" } -> 2
      [] op = "matrix-product" -> 3

(***************************************************************************)
(* Lines 50-57: the device selector                                        *)
(***************************************************************************)
DeviceTypes == { "GPU", "CPU", "ACCELERATOR", "CUSTOM" }

RECURSIVE OfType(_, _)
OfType(ds, ty) ==
    IF ds = << >> THEN << >>
    ELSE (IF Head(ds).type = ty THEN << Head(ds) >> ELSE << >>) \o OfType(Tail(ds), ty)

PresetNames == { "all", "gpus", "cpus", "accelerators" }

DEVICES_PRESETS_allgpus(all_devices) ==
    [ n \in PresetNames |->
        CASE n = "all" -> OfType(all_devices, "GPU")
          [] n = "gpus" -> OfType(all_devices, "GPU")
          [] n = "cpus" -> OfType(all_devices, "CPU")
          [] n = "accelerators" -> OfType(all_devices, "ACCELERATOR") ]

DEVICES_PRESETS(all_devices) ==
    [ n \in PresetNames |->
        CASE n = "all" -> all_devices
          [] n = "gpus" -> OfType(all_devices, "GPU")
          [] n = "cpus" -> OfType(all_devices, "CPU")
          [] n = "accelerators" -> OfType(all_devices, "ACCELERATOR") ]

\* [all_devices[int(i)] for i in confdevices], confdevices a string: one
\* character at a time, the first failure ends the comprehension.
RECURSIVE ByIndex(_, _)
ByIndex(cs, all_devices) ==
    IF cs = << >> THEN [exc |-> "none", v |-> << >>]
    ELSE LET i == int(<< Head(cs) >>) IN
         IF ~i.ok THEN [exc |-> "ValueError", v |-> << >>]
         ELSE IF i.v >= Len(all_devices) THEN [exc |-> "IndexError", v |-> << >>]
         ELSE LET rest == ByIndex(Tail(cs), all_devices) IN
              IF rest.exc # "none" THEN rest
              ELSE [exc |-> "none", v |-> << all_devices[i.v + 1] >> \o rest.v]

\* Line 57.  `confdevices in DEVICES_PRESETS` hashes confdevices: a list is
\* unhashable and the membership test raises TypeError.
select_devices(confdevices, all_devices) ==
    IF confdevices.t = "list" THEN [exc |-> "TypeError", v |-> << >>]
    ELSE IF confdevices.s \in DOMAIN DEVICES_PRESETS(all_devices)
         THEN [exc |-> "none", v |-> DEVICES_PRESETS(all_devices)[confdevices.s]]
         ELSE ByIndex(Chars(confdevices.s), all_devices)

\* Lines 58-61.
select_datatypes_lenient(confprecision) ==
    LET given == map_to_list(confprecision)
        precisions == IF "all" \in SeqToSet(given) THEN << "single", "double" >> ELSE given
    IN  [exc |-> "none",
         v |-> SelectSeq([i \in 1..Len(precisions) |-> DATATYPES(precisions[i])],
                         LAMBDA d : d # "KeyError")]

select_datatypes(confprecision) ==
    LET given == map_to_list(confprecision)
        precisions == IF "all" \in SeqToSet(given) THEN << "single", "double" >> ELSE given
    IN  IF \E i \in 1..Len(precisions) : DATATYPES(precisions[i]) = "KeyError"
        THEN [exc |-> "KeyError", v |-> << >>]
        ELSE [exc |-> "none", v |-> [i \in 1..Len(precisions) |-> DATATYPES(precisions[i])]]

(***************************************************************************)
(* Lines 72-81 and 94-148: the execution handlers                          *)
(***************************************************************************)
None == [t |-> "None", v |-> << >>]
Tuple(q) == [t |-> "tuple", v |-> q]
\* `if parameters:` (line 74)
Truthy(x) == x.t # "None" /\ x.v # << >>

devnull == "/dev/null"

\* Lines 120-122 and 133-135.
Layouts(op, sec) ==
    LET given == map_to_list(sec.layout) IN
    IF "all" \in SeqToSet(given)
    THEN (IF op = "row-wise-reduction" THEN << "N", "T" >> ELSE << "NN", "NT", "TN", "TT" >>)
    ELSE given

HasLayouts(op) == op \in { "row-wise-reduction", "matrix-product" }

Reverse(q) == [i \in 1..Len(q) |-> q[Len(q) + 1 - i]]
Transposed_same(shape) == shape
Transposed(shape) == << shape[2], shape[1] >>

\* The operands an execution handler builds and the statement it assigns
\* (lines 97-100, 105-108, 113-116, 125-129, 138-147); lay is A_trans
\* respectively layout.
Statement(op, lay, sizes) ==
    CASE op = "vector-axpy" ->
           [x |-> << sizes[1] >>, y |-> << sizes[1] >>, z |-> << sizes[1] >>,
            node |-> "z = exp(x+y) .* cos(x+y)"]
      [] op = "reduction" ->
           [x |-> << sizes[1] >>, y |-> << sizes[1] >>, s |-> << >>,
            node |-> "s = dot(x,y)"]
      [] op = "matrix-axpy" ->
           [A |-> sizes, B |-> sizes, C |-> sizes, node |-> "C = A+B"]
      [] op = "row-wise-reduction" ->
           LET A == IF lay = "N" THEN sizes ELSE Reverse(sizes) IN
           [A |-> A,
            x |-> << IF lay = "N" THEN sizes[2] ELSE sizes[1] >>,
            y |-> << IF lay = "N" THEN sizes[1] ELSE sizes[2] >>,
            LHS |-> IF lay = "N" THEN A ELSE Transposed(A),
            node |-> "y = LHS*x"]
      [] op = "matrix-product" ->
           LET A_trans == Chars(lay)[1]
               B_trans == Chars(lay)[2]
               A == IF A_trans = "N" THEN << sizes[1], sizes[2] >> ELSE << sizes[2], sizes[1] >>
               B == IF B_trans = "N" THEN << sizes[2], sizes[3] >> ELSE << sizes[3], sizes[2] >>
           IN [A |-> A, B |-> B, C |-> << sizes[1], sizes[3] >>,
               LHS |-> IF A_trans = "N" THEN A ELSE Transposed(A),
               RHS |-> IF B_trans = "N" THEN B ELSE Transposed(B),
               node |-> "C = LHS*RHS*alpha + C*beta"]

\* other_params as the handler hands them to execute (lines 100-147).
other_params(op, lay) ==
    CASE op = "row-wise-reduction" -> << >>
      [] op = "matrix-product" -> << Chars(lay)[1], Chars(lay)[2] >>
      [] OTHER -> << >>

\* additional_parameters as handed to tune (lines 101-148).
additional_parameters(op, lay) ==
    CASE op = "row-wise-reduction" -> << lay >>
      [] op = "matrix-product" -> << Chars(lay)[1], Chars(lay)[2] >>
      [] OTHER -> << >>

\* Lines 72-81: the one external call execute makes.  The closure reads
\* operation and datatype of the enclosing frame when it runs.
execute(dev, node, others, sizes, fname, parameters) ==
    IF Truthy(parameters)
    THEN [fn |-> "benchmark", template |-> template(operation), parameters |-> parameters.v,
          other_params |-> others, statement |-> node, device |-> dev]
    ELSE [fn |-> "genetic", statement |-> node, device |-> dev,
          template |-> template(operation), other_params |-> others,
          score |-> [operation |-> operation, itemsize |-> itemsize(datatype), sizes |-> sizes],
          measure |-> perf_measure(operation), archive |-> fname]

\* The current execution_handler: the closure reads device, datatype and the
\* layout loop variable of the enclosing frame when it runs.
CurrentLayout_first == IF HasLayouts(operation) THEN layouts[1] ELSE ""

CurrentLayout == IF HasLayouts(operation) THEN layouts[layIdx] ELSE ""

\* The operands are built with context=ctx (line 64-65: the context of the
\* loop's device) and dtype=datatype.
execution_handler(sizes, fname, parameters) ==
    execute(device,
            [dtype |-> datatype, ctx |-> device.id, layout |-> CurrentLayout,
             operands |-> Statement(operation, CurrentLayout, sizes)],
            other_params(operation, CurrentLayout), sizes, fname, parameters)

(***************************************************************************)
(* Line 101-148: the shape samplers.  `np` is looked up in the module's    *)
(* globals when the lambda runs; lines 3-18 bind the names below.          *)
(***************************************************************************)
ModuleGlobals ==
    { "division", "argparse", "itertools", "os", "cl", "vcl", "atd", "tools", "optimize",
      "sys", "ConfigObj", "random", "generate_dataset", "train_model" }

draw(op) ==
    IF "np" \notin ModuleGlobals THEN [exc |-> "NameError", low |-> 0, high |-> 0, size |-> 0]
    ELSE CASE op \in { "vector-axpy", "reduction" } ->
                [exc |-> "none", low |-> 10, high |-> 100000, size |-> 1]
           [] op \in { "matrix-axpy", "row-wise-reduction" } ->
                [exc |-> "none", low |-> 5, high |-> 100, size |-> 2]
           [] op = "matrix-product" ->
                [exc |-> "none", low |-> 1, high |-> 40, size |-> 3]

nTuning(op) == IF op = "vector-axpy" THEN 30 ELSE 50
nDataPoints(op) == IF op = "matrix-product" THEN 2000 ELSE 1000

\* The dataset sampler draws its shapes with the sampler it was handed, so a
\* failing draw fails the sampler.
generate_dataset(op) ==
    IF draw(op).exc # "none" THEN [exc |-> draw(op).exc] ELSE [exc |-> "none"]

(***************************************************************************)
(* Inputs                                                                  *)
(***************************************************************************)
RECURSIVE SeqsUpTo(_, _)
SeqsUpTo(S, n) ==
    IF n = 0 THEN { << >> }
    ELSE LET shorter == SeqsUpTo(S, n - 1) IN
         shorter \cup { Append(q, x) : q \in { r \in shorter : Len(r) = n - 1 }, x \in S }

\* A device as the platform layer reports it; id is its enumeration index.
DeviceKinds(types) == [type : types, double_fp_config : BOOLEAN]
Enumerate(kinds) ==
    [i \in 1..Len(kinds) |->
        [id |-> i - 1, type |-> kinds[i].type, double_fp_config |-> kinds[i].double_fp_config]]
Platforms(types, n) == { Enumerate(k) : k \in SeqsUpTo(DeviceKinds(types), n) }

NoRoot == [k \in {} |-> ""]
Configs == { NoRoot, [k \in { "viennacl-src-root" } |-> "/cfg/viennacl"] }
Roots == { "", "/cli/viennacl" }

ConfDevices ==
    { Str("all"), Str("gpus"), Str("cpus"), Str("1"), Str("gpu"), List(<< "0", "1" >>) }
ConfPrecisions ==
    { Str("all"), Str("single"), Str("double"), Str("half"), List(<< "double", "single" >>) }
ConfLayouts(op) ==
    IF op = "row-wise-reduction" THEN { Str("all"), Str("T") }
    ELSE { Str("all"), Str("TN") }
ConfSize(op) ==
    CASE NDim(op) = 1 -> Str("64")
      [] NDim(op) = 2 -> List(<< "64", "128" >>)
      [] NDim(op) = 3 -> List(<< "64", "128", "192" >>)

Sections(op) ==
    IF HasLayouts(op)
    THEN { [devices |-> d, precision |-> q, layout |-> l] :
             d \in ConfDevices, q \in ConfPrecisions, l \in ConfLayouts(op) }
         \cup { [devices |-> d, precision |-> q, layout |-> l, size |-> ConfSize(op)] :
             d \in ConfDevices, q \in ConfPrecisions, l \in ConfLayouts(op) }
    ELSE { [devices |-> d, precision |-> q] : d \in ConfDevices, q \in ConfPrecisions }
         \cup { [devices |-> d, precision |-> q, size |-> ConfSize(op)] :
             d \in ConfDevices, q \in ConfPrecisions }

NoSection == [k \in {} |-> ""]
NoDevice == [id |-> 0 - 1, type |-> "", double_fp_config |-> FALSE]
Idle == [state |-> "idle"]

(***************************************************************************)
(* do_tuning                                                               *)
(***************************************************************************)
Init ==
    /\ platform \in Platforms({ "GPU", "CPU" }, MaxDevices)
    /\ config \in Configs
    /\ viennacl_root \in Roots
    /\ opIdx = 0
    /\ operation = ""
    /\ p = NoSection
    /\ enumerated = FALSE
    /\ devices = << >>
    /\ datatypes = << >>
    /\ pairIdx = 0
    /\ datatype = ""
    /\ device = NoDevice
    /\ layouts = << >>
    /\ layIdx = 0
    /\ profile = 0
    /\ pc = "operations"
    /\ crash = "none"
    /\ calls = << >>
    /\ sel = Idle
    /\ perf = Idle

Running_always == TRUE

Running == crash = "none"

\* The locals of the previous iteration that are rebound before they are read.
FreshPairs ==
    /\ pairIdx' = 0
    /\ datatype' = ""
    /\ device' = NoDevice
    /\ layouts' = << >>
    /\ layIdx' = 0
    /\ profile' = 0
    /\ calls' = << >>

\* Line 47: the loop takes the next operation.
NextOperation ==
    /\ Running /\ pc = "operations" /\ opIdx < Len(Operations)
    /\ opIdx' = opIdx + 1
    /\ operation' = Operations[opIdx + 1]
    /\ p' = NoSection
    /\ devices' = << >>
    /\ datatypes' = << >>
    /\ FreshPairs
    /\ pc' = "section"
    /\ UNCHANGED << platform, config, viennacl_root, enumerated, crash, sel, perf >>

\* Line 48: the operation has no section in the configuration.
SkipOperation ==
    /\ Running /\ pc = "section"
    /\ pc' = "operations"
    /\ UNCHANGED << platform, config, viennacl_root, opIdx, operation, p, enumerated, devices,
                    datatypes, pairIdx, datatype, device, layouts, layIdx, profile, crash,
                    calls, sel, perf >>

\* Lines 48-61: the operation has a section; enumerate the devices, resolve
\* devices and datatypes.
ConfigureOperation ==
    /\ Running /\ pc = "section"
    /\ \E sec \in Sections(operation) :
         LET all_devices == platform
             ds == select_devices(sec.devices, all_devices)
             dts == select_datatypes(sec.precision)
         IN /\ p' = sec
            /\ enumerated' = TRUE
            /\ IF ds.exc # "none"
               THEN crash' = ds.exc /\ devices' = << >> /\ datatypes' = << >> /\ pc' = pc
               ELSE IF dts.exc # "none"
               THEN crash' = dts.exc /\ devices' = ds.v /\ datatypes' = << >> /\ pc' = pc
               ELSE crash' = crash /\ devices' = ds.v /\ datatypes' = dts.v /\ pc' = "pairs"
    /\ UNCHANGED << platform, config, viennacl_root, opIdx, operation, pairIdx, datatype,
                    device, layouts, layIdx, profile, calls, sel, perf >>

\* Line 47: the list of operations is exhausted.
Finish ==
    /\ Running /\ pc = "operations" /\ opIdx = Len(Operations)
    /\ pc' = "done"
    /\ UNCHANGED << platform, config, viennacl_root, opIdx, operation, p, enumerated, devices,
                    datatypes, pairIdx, datatype, device, layouts, layIdx, profile, crash,
                    calls, sel, perf >>

\* itertools.product(datatypes, devices), line 63: datatypes vary slowest.
NPairs == Len(datatypes) * Len(devices)
PairDatatype_fastest(k) == datatypes[((k - 1) % Len(datatypes)) + 1]
PairDatatype(k) == datatypes[((k - 1) \div Len(devices)) + 1]
PairDevice(k) == devices[((k - 1) % Len(devices)) + 1]

\* Line 68.
Unsupported_never(dt, dev) == FALSE

Unsupported(dt, dev) == dt = "float64" /\ ~dev.double_fp_config

\* Line 63: the pairs are exhausted; back to the loop of line 47.
EndPairs ==
    /\ Running /\ pc = "pairs" /\ pairIdx = NPairs
    /\ pc' = "operations"
    /\ UNCHANGED << platform, config, viennacl_root, opIdx, operation, p, enumerated, devices,
                    datatypes, pairIdx, datatype, device, layouts, layIdx, profile, crash,
                    calls, sel, perf >>

\* Lines 63-70: the device cannot do double precision; warn and continue.
SkipPair ==
    /\ Running /\ pc = "pairs" /\ pairIdx < NPairs
    /\ Unsupported(PairDatatype(pairIdx + 1), PairDevice(pairIdx + 1))
    /\ pairIdx' = pairIdx + 1
    /\ datatype' = PairDatatype(pairIdx + 1)
    /\ device' = PairDevice(pairIdx + 1)
    /\ calls' = Append(calls, [fn |-> "stderr.write", device |-> PairDevice(pairIdx + 1),
                               datatype |-> PairDatatype(pairIdx + 1)])
    /\ UNCHANGED << platform, config, viennacl_root, opIdx, operation, p, enumerated, devices,
                    datatypes, layouts, layIdx, profile, pc, crash, sel, perf >>

\* Lines 63-83 and the branch of lines 95-136 that applies: the helpers are
\* defined, the layouts resolved and the first execution handler built.
BeginPair ==
    /\ Running /\ pc = "pairs" /\ pairIdx < NPairs
    /\ ~Unsupported(PairDatatype(pairIdx + 1), PairDevice(pairIdx + 1))
    /\ pairIdx' = pairIdx + 1
    /\ datatype' = PairDatatype(pairIdx + 1)
    /\ device' = PairDevice(pairIdx + 1)
    /\ IF HasLayouts(operation)
       THEN layouts' = Layouts(operation, p) /\ layIdx' = 1
       ELSE layouts' = layouts /\ layIdx' = layIdx
    /\ pc' = "tune"
    /\ UNCHANGED << platform, config, viennacl_root, opIdx, operation, p, enumerated, devices,
                    datatypes, profile, crash, calls, sel, perf >>

\* Line 84.
SinglePoint(sec) == "size" \in DOMAIN sec

\* Line 86.
HeadersConfigured_never(cfg, root) == FALSE

HeadersConfigured(cfg, root) == "viennacl-src-root" \in DOMAIN cfg

\* Line 85: map_to_list(int, p['size']).
RECURSIVE Ints(_)
Ints(q) ==
    IF q = << >> THEN [exc |-> "none", v |-> << >>]
    ELSE LET i == int(Chars(Head(q)))  rest == Ints(Tail(q)) IN
         IF ~i.ok THEN [exc |-> "ValueError", v |-> << >>]
         ELSE IF rest.exc # "none" THEN rest
         ELSE [exc |-> "none", v |-> << i.v >> \o rest.v]

\* The pass is over: the next layout of lines 123/136, or the next pair.
EndPass ==
    IF HasLayouts(operation) /\ layIdx < Len(layouts)
    THEN layIdx' = layIdx + 1 /\ pc' = "tune"
    ELSE layIdx' = layIdx /\ pc' = "pairs"

\* Lines 83-85 with 72-81: tune runs the handler on the configured size,
\* which enters the search procedure.
TuneSinglePoint ==
    /\ Running /\ pc = "tune" /\ SinglePoint(p)
    /\ LET sizes == Ints(map_to_list(p.size)) IN
       IF sizes.exc # "none"
       THEN crash' = sizes.exc /\ calls' = calls /\ pc' = pc
       ELSE /\ calls' = Append(calls, execution_handler(sizes.v, devnull, None))
            /\ pc' = "search"
            /\ crash' = crash
    /\ UNCHANGED << platform, config, viennacl_root, opIdx, operation, p, enumerated, devices,
                    datatypes, pairIdx, datatype, device, layouts, layIdx, profile, sel, perf >>

\* Line 85: the search returns the ParameterSet it converged to; line 86.
SearchReturns ==
    /\ Running /\ pc = "search"
    /\ profile' = Len(calls)
    /\ IF HeadersConfigured(config, viennacl_root)
       THEN pc' = "update" /\ layIdx' = layIdx
       ELSE EndPass
    /\ UNCHANGED << platform, config, viennacl_root, opIdx, operation, p, enumerated, devices,
                    datatypes, pairIdx, datatype, device, layouts, crash, calls, sel, perf >>

\* A failure inside an external call leaves do_tuning.
ExternalCallRaises ==
    /\ Running /\ pc \in { "search", "updating" }
    /\ crash' = "external"
    /\ UNCHANGED << platform, config, viennacl_root, opIdx, operation, p, enumerated, devices,
                    datatypes, pairIdx, datatype, device, layouts, layIdx, profile, pc, calls,
                    sel, perf >>

\* Line 87: the header updater is called.
UpdateRoot(cfg, root) == cfg["viennacl-src-root"]

UpdateHeaders ==
    /\ Running /\ pc = "update"
    /\ calls' = Append(calls,
         [fn |-> "update_viennacl_headers", root |-> UpdateRoot(config, viennacl_root),
          device |-> device, datatype |-> datatype, operation |-> operation,
          additional_parameters |-> additional_parameters(operation, CurrentLayout),
          profile |-> profile])
    /\ pc' = "updating"
    /\ UNCHANGED << platform, config, viennacl_root, opIdx, operation, p, enumerated, devices,
                    datatypes, pairIdx, datatype, device, layouts, layIdx, profile, crash,
                    sel, perf >>

\* Line 87: the header updater returns; the pass is over.
UpdateReturns ==
    /\ Running /\ pc = "updating"
    /\ EndPass
    /\ UNCHANGED << platform, config, viennacl_root, opIdx, operation, p, enumerated, devices,
                    datatypes, pairIdx, datatype, device, layouts, profile, crash, calls,
                    sel, perf >>

\* Lines 89-92: the dataset driver.  The sampler is called with draw and
\* fails if draw does; otherwise its result goes to the model trainer.
TuneDataset ==
    /\ Running /\ pc = "tune" /\ ~SinglePoint(p)
    /\ LET call == [fn |-> "generate_dataset", template |-> template(operation),
                    handler |-> [operation |-> operation, device |-> device,
                                 datatype |-> datatype, layout |-> CurrentLayout],
                    nTuning |-> nTuning(operation), nDataPoints |-> nDataPoints(operation),
                    draw |-> operation]
           r == generate_dataset(operation)
       IN IF r.exc # "none"
          THEN /\ calls' = Append(calls, call)
               /\ crash' = r.exc
               /\ pc' = pc /\ layIdx' = layIdx
          ELSE /\ calls' = calls \o << call, [fn |-> "train_model",
                                              measure |-> perf_measure(operation)] >>
               /\ crash' = crash
               /\ EndPass
    /\ UNCHANGED << platform, config, viennacl_root, opIdx, operation, p, enumerated, devices,
                    datatypes, pairIdx, datatype, device, layouts, profile, sel, perf >>

Next ==
    \/ NextOperation
    \/ SkipOperation
    \/ ConfigureOperation
    \/ Finish
    \/ EndPairs
    \/ SkipPair
    \/ BeginPair
    \/ TuneSinglePoint
    \/ SearchReturns
    \/ ExternalCallRaises
    \/ UpdateHeaders
    \/ UpdateReturns
    \/ TuneDataset

Spec == Init /\ [][Next]_vars

(***************************************************************************)
(* The selector of lines 50-57 on its own: any device types, any of the    *)
(* `devices` values below.                                                 *)
(***************************************************************************)
IndexStrings == { "0", "1", "2" }
SelConfDevices ==
    { Str(n) : n \in PresetNames \cup IndexStrings \cup { "01", "10", "gpu" } }
    \cup { List(q) : q \in SeqsUpTo(IndexStrings, MaxIndexList) \ { << >> } }

SweepIdle ==
    /\ platform = << >>
    /\ config = NoRoot
    /\ viennacl_root = ""
    /\ opIdx = 0
    /\ operation = ""
    /\ p = NoSection
    /\ enumerated = FALSE
    /\ devices = << >>
    /\ datatypes = << >>
    /\ pairIdx = 0
    /\ datatype = ""
    /\ device = NoDevice
    /\ layouts = << >>
    /\ layIdx = 0
    /\ profile = 0
    /\ pc = "idle"
    /\ crash = "none"
    /\ calls = << >>

InitSelector ==
    /\ SweepIdle
    /\ perf = Idle
    /\ \E c \in SelConfDevices, a \in Platforms(DeviceTypes, MaxSelDevices) :
         sel = [state |-> "input", confdevices |-> c, all_devices |-> a]

\* Lines 50-57.
SelectDevices ==
    /\ sel.state = "input"
    /\ sel' = [state |-> "resolved", confdevices |-> sel.confdevices,
               all_devices |-> sel.all_devices,
               presets |-> DEVICES_PRESETS(sel.all_devices),
               devices |-> select_devices(sel.confdevices, sel.all_devices)]
    /\ UNCHANGED << platform, config, viennacl_root, opIdx, operation, p, enumerated, devices,
                    datatypes, pairIdx, datatype, device, layouts, layIdx, profile, pc, crash,
                    calls, perf >>

SpecSelector == InitSelector /\ [][SelectDevices]_vars

(***************************************************************************)
(* The scoring closures of lines 81 and 90 on their own.                   *)
(***************************************************************************)
Dims == { 64, 128, 192 }
Shapes(op) == { q \in SeqsUpTo(Dims, 3) : Len(q) = NDim(op) }

\* Line 81: lambda t: TYPES[operation]['perf-index']([datatype().itemsize, sizes, t])
score(op, dt, sizes, t) == perf_index(op, << itemsize(dt), sizes, t >>)

\* Lines 89-90.
compute_perf(op, dt, x, t) == perf_index(op, << itemsize(dt), x, t >>)

InitPerf ==
    /\ SweepIdle
    /\ sel = Idle
    /\ \E op \in SeqToSet(Operations), dt \in { "float32", "float64" }, t \in 1..MaxTime :
         \E sizes \in Shapes(op) :
            perf = [state |-> "input", operation |-> op, datatype |-> dt, sizes |-> sizes,
                    t |-> t]

\* The search procedure scores a timing with the closure of line 81.
Score ==
    /\ perf.state = "input"
    /\ perf' = [state |-> "scored", operation |-> perf.operation, datatype |-> perf.datatype,
                sizes |-> perf.sizes, t |-> perf.t,
                score |-> score(perf.operation, perf.datatype, perf.sizes, perf.t),
                measure |-> perf_measure(perf.operation)]
    /\ UNCHANGED << platform, config, viennacl_root, opIdx, operation, p, enumerated, devices,
                    datatypes, pairIdx, datatype, device, layouts, layIdx, profile, pc, crash,
                    calls, sel >>

\* The dataset driver's compute_perf of lines 89-90.
ComputePerf ==
    /\ perf.state = "input"
    /\ perf' = [state |-> "computed", operation |-> perf.operation, datatype |-> perf.datatype,
                sizes |-> perf.sizes, t |-> perf.t,
                score |-> compute_perf(perf.operation, perf.datatype, perf.sizes, perf.t),
                measure |-> perf_measure(perf.operation)]
    /\ UNCHANGED << platform, config, viennacl_root, opIdx, operation, p, enumerated, devices,
                    datatypes, pairIdx, datatype, device, layouts, layIdx, profile, pc, crash,
                    calls, sel >>

NextPerf == Score \/ ComputePerf

SpecPerf == InitPerf /\ [][NextPerf]_vars

(***************************************************************************)
(* One call of an execution handler (lines 96-147 with 72-81), by the      *)
(* search procedure, the dataset sampler or tune, with any arguments       *)
(***************************************************************************)
ParameterSets == { None, Tuple(<< >>), Tuple(<< 1, 8, 8 >>), Tuple(<< 4, 16, 2, 2 >>) }
Archives == { devnull, "/tmp/archive" }
LayoutCodes(op) ==
    CASE op = "row-wise-reduction" -> { "N", "T" }
      [] op = "matrix-product" -> { "NN", "NT", "TN", "TT" }
      [] OTHER -> { }

\* The frame a handler closes over: lines 63-66 and the layout loops.
InitHandler ==
    /\ sel = Idle /\ perf = Idle
    /\ config = NoRoot /\ viennacl_root = ""
    /\ opIdx = 0 /\ enumerated = FALSE /\ p = NoSection
    /\ pairIdx = 0 /\ profile = 0 /\ crash = "none" /\ calls = << >>
    /\ pc = "handler"
    /\ platform \in Platforms({ "GPU" }, 1) /\ platform # << >>
    /\ device = platform[1]
    /\ devices = << device >>
    /\ datatype \in { "float32", "float64" }
    /\ datatypes = << datatype >>
    /\ ~Unsupported(datatype, device)
    /\ operation \in SeqToSet(Operations)
    /\ IF HasLayouts(operation)
       THEN layIdx = 1 /\ \E lay \in LayoutCodes(operation) : layouts = << lay >>
       ELSE layIdx = 0 /\ layouts = << >>

\* execution_handler(sizes, fname, parameters): the call and what execute does.
CallHandler ==
    /\ pc = "handler"
    /\ \E sizes \in Shapes(operation), fname \in Archives, parameters \in ParameterSets :
         calls' = << [fn |-> "execution_handler", sizes |-> sizes, fname |-> fname,
                      parameters |-> parameters],
                     execution_handler(sizes, fname, parameters) >>
    /\ pc' = "returned"
    /\ UNCHANGED << platform, config, viennacl_root, opIdx, operation, p, enumerated, devices,
                    datatypes, pairIdx, datatype, device, layouts, layIdx, profile, crash,
                    sel, perf >>

SpecHandler == InitHandler /\ [][CallHandler]_vars

(***************************************************************************)
(* Reading the log                                                         *)
(***************************************************************************)
Calls(f) == { i \in 1..Len(calls) : calls[i].fn = f }
PassStarts == Calls("genetic") \cup Calls("generate_dataset")

\* The device, datatype and layout of the pass that call i starts.
StartDevice(i) ==
    IF calls[i].fn = "genetic" THEN calls[i].device ELSE calls[i].handler.device
StartDatatype(i) ==
    IF calls[i].fn = "genetic" THEN calls[i].statement.dtype ELSE calls[i].handler.datatype
StartLayout(i) ==
    IF calls[i].fn = "genetic" THEN calls[i].statement.layout ELSE calls[i].handler.layout

\* The search that call i entered has returned.
SearchReturned(i) == calls[i].fn = "genetic" /\ ~(i = Len(calls) /\ pc = "search")

\* do_tuning has stopped on its own account: it returned, or an exception
\* that no external collaborator raised left it.
Stopped == pc = "done" \/ crash \notin { "none", "external" }

\* Double precision on a device that reports no double_fp_config.
LacksDouble(dt, dev) == dt = "float64" /\ dev.double_fp_config = FALSE

\* Pair k of the current operation has been swept completely.
PairSwept(k) == k < pairIdx \/ (k = pairIdx /\ pc \in { "pairs", "operations" })

(***************************************************************************)
(* C1  A (double precision, device without double_fp_config) combination   *)
(* is skipped: no pass is ever in progress for it, and no search, sampler, *)
(* trainer or header updater call is made for it; only the warning is.     *)
(***************************************************************************)
C1_SkipUnsupported ==
    /\ pc \in { "tune", "search", "update", "updating" } => ~LacksDouble(datatype, device)
    /\ \A i \in PassStarts : ~LacksDouble(StartDatatype(i), StartDevice(i))
    /\ \A i \in Calls("update_viennacl_headers") :
          ~LacksDouble(calls[i].datatype, calls[i].device)
    /\ \A i \in Calls("train_model") : i > 1 /\ calls[i - 1].fn = "generate_dataset"
    /\ \A k \in 1..pairIdx :
          LacksDouble(PairDatatype(k), PairDevice(k)) =>
             \E i \in Calls("stderr.write") :
                calls[i].device = PairDevice(k) /\ calls[i].datatype = PairDatatype(k)

\* A pair was skipped and the sweep went on to tune a later pair.
C1_Witness ==
    \E i \in Calls("stderr.write") : \E j \in Calls("genetic") :
       i < j /\ ~calls[i].device.double_fp_config /\ calls[i].datatype = "float64"

(***************************************************************************)
(* C2  Every pass produces exactly one of a single-point result and a      *)
(* trained model: with a `size` key only the search (and header update)    *)
(* runs, without it the sampler runs and is followed by the trainer.       *)
(***************************************************************************)
C2_ExactlyOneResult ==
    /\ SinglePoint(p) => Calls("generate_dataset") \cup Calls("train_model") = {}
    /\ ~SinglePoint(p) =>
          /\ Calls("genetic") \cup Calls("update_viennacl_headers") = {}
          /\ \A i \in Calls("generate_dataset") :
                i < Len(calls) /\ calls[i + 1].fn = "train_model"

(***************************************************************************)
(* C3  With layout = all for matrix-product, every pair that is not        *)
(* skipped gets exactly one pass for each of NN, NT, TN, TT and no other   *)
(* pass, unless an external call fails.                                    *)
(***************************************************************************)
PassesOf(k, lay) ==
    { i \in PassStarts : /\ StartDevice(i) = PairDevice(k)
                         /\ StartDatatype(i) = PairDatatype(k)
                         /\ StartLayout(i) = lay }

C3_FourLayoutPasses ==
    ( /\ operation = "matrix-product"
      /\ "layout" \in DOMAIN p
      /\ "all" \in SeqToSet(map_to_list(p.layout)) )
    => \A k \in 1..pairIdx :
          (PairSwept(k) \/ Stopped) /\ ~LacksDouble(PairDatatype(k), PairDevice(k))
          => /\ \A lay \in { "NN", "NT", "TN", "TT" } : Cardinality(PassesOf(k, lay)) = 1
             /\ \A i \in PassStarts :
                   StartDevice(i) = PairDevice(k) /\ StartDatatype(i) = PairDatatype(k)
                   => StartLayout(i) \in { "NN", "NT", "TN", "TT" }

(***************************************************************************)
(* C4  vector-axpy on `gpus`, precision `all`, no size: once the section   *)
(* is swept (or do_tuning stopped by itself) every GPU has had a dataset   *)
(* pass for single and one for double (if it supports it), each a sampler  *)
(* call with the vector-axpy sampler followed by one trainer call; there   *)
(* is no header update and no pass on another device.                      *)
(***************************************************************************)
GpuPairs ==
    { << dt, d >> : dt \in { "float32", "float64" },
                    d \in { platform[i] : i \in { j \in 1..Len(platform) :
                                                     platform[j].type = "GPU" } } }

C4_EndToEnd ==
    ( /\ operation = "vector-axpy"
      /\ DOMAIN p = { "devices", "precision" }
      /\ p.devices = Str("gpus")
      /\ p.precision = Str("all")
      /\ (pc = "operations" \/ Stopped) )
    => /\ \A pair \in GpuPairs :
             ~LacksDouble(pair[1], pair[2]) =>
                Cardinality({ i \in Calls("generate_dataset") :
                                 /\ calls[i].handler.device = pair[2]
                                 /\ calls[i].handler.datatype = pair[1]
                                 /\ calls[i].draw = "vector-axpy" }) = 1
       /\ \A i \in Calls("generate_dataset") :
             /\ << calls[i].handler.datatype, calls[i].handler.device >> \in GpuPairs
             /\ i < Len(calls) /\ calls[i + 1].fn = "train_model"
       /\ Cardinality(Calls("train_model")) = Cardinality(Calls("generate_dataset"))
       /\ Calls("update_viennacl_headers") \cup Calls("genetic") = {}

(***************************************************************************)
(* C5  An explicit list of valid index strings resolves, without error,    *)
(* to the devices at those indices of the enumerated list, in list order.  *)
(***************************************************************************)
ValidIndexList(c, all_devices) ==
    /\ c.t = "list"
    /\ \A i \in 1..Len(c.l) : int(Chars(c.l[i])).ok /\ int(Chars(c.l[i])).v < Len(all_devices)

C5_IndexListResolves ==
    (sel.state = "resolved" /\ ValidIndexList(sel.confdevices, sel.all_devices))
    => /\ sel.devices.exc = "none"
       /\ sel.devices.v =
             [i \in 1..Len(sel.confdevices.l) |->
                 sel.all_devices[int(Chars(sel.confdevices.l[i])).v + 1]]

(***************************************************************************)
(* C6  As stated: preset `all` is the union of `gpus`, `cpus` and          *)
(* `accelerators`, which are pairwise disjoint.                            *)
(***************************************************************************)
PresetSet(n) == SeqToSet(sel.presets[n])
TypedPresets == { "gpus", "cpus", "accelerators" }

C6_AllIsUnion ==
    sel.state = "resolved"
    => /\ PresetSet("all") = UNION { PresetSet(n) : n \in TypedPresets }
       /\ \A m, n \in TypedPresets : m # n => PresetSet(m) \cap PresetSet(n) = {}

(***************************************************************************)
(* C6, amended: `gpus`, `cpus` and `accelerators` are pairwise disjoint    *)
(* and their union is the devices of `all` whose type is GPU, CPU or       *)
(* ACCELERATOR; `all` is every enumerated device, so it equals the union   *)
(* exactly when no enumerated device has another type.                     *)
(***************************************************************************)
C6_UnionOfTyped ==
    sel.state = "resolved"
    => /\ PresetSet("all") = SeqToSet(sel.all_devices)
       /\ UNION { PresetSet(n) : n \in TypedPresets }
             = { d \in PresetSet("all") : d.type \in { "GPU", "CPU", "ACCELERATOR" } }
       /\ \A m, n \in TypedPresets : m # n => PresetSet(m) \cap PresetSet(n) = {}
       /\ (PresetSet("all") = UNION { PresetSet(n) : n \in TypedPresets })
             <=> (\A d \in SeqToSet(sel.all_devices) :
                     d.type \in { "GPU", "CPU", "ACCELERATOR" })

\* The presets of a platform with a GPU, a CPU and a device of another type.
C6_Witness ==
    /\ sel.state = "resolved"
    /\ { d.type : d \in SeqToSet(sel.all_devices) } = { "GPU", "CPU", "CUSTOM" }
    /\ PresetSet("gpus") # {} /\ PresetSet("cpus") # {}
    /\ PresetSet("all") # UNION { PresetSet(n) : n \in TypedPresets }

(***************************************************************************)
(* C7  As stated: the matrix-product index of shape (m,n,k), element size  *)
(* e and time t is 2*m*n*k*e / (t*1e9), labelled GFLOP/s.                  *)
(***************************************************************************)
Scored == perf.state \in { "scored", "computed" }
Quotient(n, d) == [num |-> n, den |-> d, exp |-> 0 - 9]

C7_ProductIndexScaled ==
    (Scored /\ perf.operation = "matrix-product")
    => /\ RatEq(perf.score,
                Quotient(2 * perf.sizes[1] * perf.sizes[2] * perf.sizes[3]
                           * itemsize(perf.datatype), perf.t))
       /\ perf.measure = "GFLOP/s"

(***************************************************************************)
(* C7, amended: the matrix-product index is 2*m*n*k / (t*1e9), whatever    *)
(* the element size, labelled GFLOP/s.                                     *)
(***************************************************************************)
C7_ProductIndex ==
    (Scored /\ perf.operation = "matrix-product")
    => /\ RatEq(perf.score,
                Quotient(2 * perf.sizes[1] * perf.sizes[2] * perf.sizes[3], perf.t))
       /\ perf.measure = "GFLOP/s"

\* The index of (128,128,128) at element size 4 and time 1 is 2*128^3 * 1e-9.
C7_Witness ==
    /\ perf.state = "scored" /\ perf.operation = "matrix-product"
    /\ perf.sizes = << 128, 128, 128 >> /\ perf.datatype = "float32" /\ perf.t = 1
    /\ RatEq(perf.score, Quotient(4194304, 1))

(***************************************************************************)
(* C8  The four bandwidth indices are 3*e*s0/t, 3*e*s0*s1/t, 2*e*s0/t and  *)
(* e*s0*s1/t times 1e-9 with e the itemsize of the datatype, labelled      *)
(* GB/s, both as the search scores a timing and as compute_perf does.      *)
(***************************************************************************)
Bandwidth(op, e, s) ==
    CASE op = "vector-axpy" -> 3 * e * s[1]
      [] op = "matrix-axpy" -> 3 * e * s[1] * s[2]
      [] op = "reduction" -> 2 * e * s[1]
      [] op = "row-wise-reduction" -> e * s[1] * s[2]

C8_BandwidthIndex ==
    (Scored /\ perf.operation # "matrix-product")
    => /\ RatEq(perf.score,
                Quotient(Bandwidth(perf.operation,
                                   IF perf.datatype = "float64" THEN 8 ELSE 4,
                                   perf.sizes), perf.t))
       /\ perf.measure = "GB/s"

\* A double precision row-wise-reduction of 64 x 128 at time 2, by compute_perf.
C8_Witness ==
    /\ perf.state = "computed" /\ perf.operation = "row-wise-reduction"
    /\ perf.sizes = << 64, 128 >> /\ perf.datatype = "float64" /\ perf.t = 2
    /\ RatEq(perf.score, Quotient(32768, 1))

(***************************************************************************)
(* C9  With a non-empty --viennacl-root, every single-point pass whose     *)
(* search returned forwards its result to the header updater with that     *)
(* path as source root.                                                    *)
(***************************************************************************)
C9_ArgumentOverrides ==
    viennacl_root # ""
    => \A i \in Calls("genetic") :
          SearchReturned(i)
          => \/ i = Len(calls) /\ pc = "update"
             \/ /\ i < Len(calls)
                /\ calls[i + 1].fn = "update_viennacl_headers"
                /\ calls[i + 1].root = viennacl_root

(***************************************************************************)
(* C10  With `viennacl-src-root` in the configuration the header updater   *)
(* is called exactly once per single-point pass, after the search          *)
(* returned, with the configured root, the device, datatype, operation     *)
(* and layout qualifiers of that pass and the ParameterSet that search     *)
(* returned; without the key, and in dataset mode, it is never called.     *)
(***************************************************************************)
C10_HeaderUpdate ==
    /\ \A i \in Calls("update_viennacl_headers") :
          /\ "viennacl-src-root" \in DOMAIN config
          /\ SinglePoint(p)
          /\ calls[i].root = config["viennacl-src-root"]
          /\ i > 1 /\ calls[i - 1].fn = "genetic"
          /\ calls[i].profile = i - 1
          /\ calls[i].device = calls[i - 1].device
          /\ calls[i].device.id = calls[i - 1].statement.ctx
          /\ calls[i].datatype = calls[i - 1].statement.dtype
          /\ calls[i].operation = calls[i - 1].score.operation
          /\ calls[i].operation = operation
          /\ calls[i].additional_parameters =
                additional_parameters(operation, calls[i - 1].statement.layout)
    /\ \A i \in Calls("genetic") :
          ("viennacl-src-root" \in DOMAIN config /\ SearchReturned(i))
          => \/ i = Len(calls) /\ pc = "update"
             \/ i < Len(calls) /\ calls[i + 1].fn = "update_viennacl_headers"
    /\ "viennacl-src-root" \notin DOMAIN config => Calls("update_viennacl_headers") = {}
    /\ ~SinglePoint(p) => Calls("update_viennacl_headers") = {}

\* Two passes of one pair have each forwarded their own result.
C10_Witness ==
    \E i, j \in Calls("update_viennacl_headers") :
       /\ i < j
       /\ calls[i].device = calls[j].device /\ calls[i].datatype = calls[j].datatype
       /\ calls[i].additional_parameters # calls[j].additional_parameters
       /\ calls[i].profile # calls[j].profile
       /\ pc = "pairs"

(***************************************************************************)
(* C11  The devices are enumerated once in a run: a section is never       *)
(* resolved (lines 49-61, which enumerate at line 51) after an earlier     *)
(* section of the same run already enumerated them.                        *)
(***************************************************************************)
C11_EnumeratedOnce == [][(pc = "section" /\ p' # p) => enumerated = FALSE]_vars

\* The place of a logged external call: the call and the combination it is for.
Place(c) ==
    CASE c.fn = "genetic" -> << c.fn, c.device, c.statement.dtype, c.statement.layout >>
      [] c.fn = "generate_dataset" ->
           << c.fn, c.handler.device, c.handler.datatype, c.handler.layout >>
      [] c.fn = "update_viennacl_headers" ->
           << c.fn, c.device, c.datatype, c.additional_parameters >>
      [] OTHER -> << c.fn >>
External(c) == c.fn \in { "genetic", "generate_dataset", "update_viennacl_headers" }

(***************************************************************************)
(* C12  No external call is retried, and a failure ends the sweep: a step  *)
(* that logs an external call logs it for a place no earlier call of the   *)
(* operation was logged for, and once a failure has left do_tuning no call *)
(* is logged and no pass, pair or operation is begun.                      *)
(***************************************************************************)
C12_OnceAndFailureEndsSweep ==
    [][/\ crash # "none" => UNCHANGED << calls, pc, opIdx, pairIdx, layIdx, profile >>
       /\ \A i \in 1..Len(calls') :
            (i > Len(calls) /\ External(calls'[i]))
               => \A j \in 1..Len(calls) : Place(calls[j]) # Place(calls'[i])]_vars

\* The header updater has failed while a later layout or pair was still due.
C12_Witness ==
    /\ crash = "external" /\ pc = "updating"
    /\ (pairIdx < NPairs \/ layIdx < Len(layouts))
    /\ Calls("genetic") # {}

\* A devices value that is neither a preset nor made of valid indices: one of
\* its entries (of its characters, for a plain string) is no index of all_devices.
InvalidDevices(confdevices, all_devices) ==
    LET entries == IF confdevices.t = "list"
                   THEN [i \in 1..Len(confdevices.l) |-> Chars(confdevices.l[i])]
                   ELSE [i \in 1..Len(Chars(confdevices.s)) |-> << Chars(confdevices.s)[i] >>]
    IN  /\ confdevices.t = "str" => confdevices.s \notin PresetNames
        /\ \E i \in 1..Len(entries) :
              ~int(entries[i]).ok \/ int(entries[i]).v >= Len(all_devices)
\* A precision value without the literal all and with an unknown name.
InvalidPrecision(confprecision) ==
    LET given == map_to_list(confprecision) IN
    /\ "all" \notin SeqToSet(given)
    /\ \E i \in 1..Len(given) : given[i] \notin { "single", "double" }
ConfigurationError ==
    /\ p # NoSection
    /\ InvalidDevices(p.devices, platform) \/ InvalidPrecision(p.precision)

LayoutsDue == IF HasLayouts(operation) THEN SeqToSet(Layouts(operation, p)) ELSE { "" }

(***************************************************************************)
(* C14  When do_tuning has stopped without an external call failing, in a  *)
(* section whose devices and precisions resolved, every combination of     *)
(* resolved precision, resolved device and layout has had exactly one pass *)
(* if the device can do the precision, and none if it cannot.              *)
(***************************************************************************)
C14_EveryCombinationOnce ==
    (Stopped /\ p # NoSection /\ ~ConfigurationError /\ p.devices.t = "str")
    => \A k \in 1..NPairs : \A lay \in LayoutsDue :
          Cardinality(PassesOf(k, lay)) =
             IF LacksDouble(PairDatatype(k), PairDevice(k)) THEN 0 ELSE 1

\* The position of x in a list without repetitions.
Pos(q, x) == CHOOSE n \in 1..Len(q) : q[n] = x
OperationOrder ==
    << "vector-axpy", "matrix-axpy", "reduction", "row-wise-reduction", "matrix-product" >>
\* Where the pass that the logged call c starts stands: precision, device, layout.
PassKey(c) ==
    LET dt == IF c.fn = "genetic" THEN c.statement.dtype ELSE c.handler.datatype
        dev == IF c.fn = "genetic" THEN c.device ELSE c.handler.device
        lay == IF c.fn = "genetic" THEN c.statement.layout ELSE c.handler.layout
    IN  << Pos(datatypes, dt), Pos(devices, dev),
           IF HasLayouts(operation) THEN Pos(Layouts(operation, p), lay) ELSE 1 >>
LexLess(a, b) ==
    \/ a[1] < b[1]
    \/ a[1] = b[1] /\ a[2] < b[2]
    \/ a[1] = b[1] /\ a[2] = b[2] /\ a[3] < b[3]

(***************************************************************************)
(* C15  The passes of an operation start in the order precision, then      *)
(* device, then layout as listed; a pass starts only when the pass before  *)
(* it has made all its calls (its search, and its header update where one  *)
(* is due); and the operations are taken in the order vector-axpy,         *)
(* matrix-axpy, reduction, row-wise-reduction, matrix-product.             *)
(***************************************************************************)
C15_TotalOrder ==
    [][/\ operation' # operation =>
             /\ operation' \in SeqToSet(OperationOrder)
             /\ operation # "" => Pos(OperationOrder, operation) < Pos(OperationOrder, operation')
       /\ PassStarts' \ PassStarts # {} =>
             /\ pc = "tune"
             /\ UNCHANGED << operation, p, datatypes, devices >>
             /\ \A i \in PassStarts : \A j \in PassStarts' \ PassStarts :
                   i < j /\ LexLess(PassKey(calls[i]), PassKey(calls'[j]))
             /\ \A i \in Calls("genetic") :
                   "viennacl-src-root" \in DOMAIN config =>
                      i < Len(calls) /\ calls[i + 1].fn = "update_viennacl_headers"]_vars

\* All sixteen passes of matrix-product for two precisions, two devices and
\* four layouts have started.
C15_Witness ==
    /\ operation = "matrix-product" /\ Len(datatypes) = 2 /\ Len(devices) = 2
    /\ Cardinality(PassStarts) = 16
    /\ "viennacl-src-root" \in DOMAIN config

\* The handler calls of the log, each followed by the external call it made.
HandlerCalls == Calls("execution_handler")

(***************************************************************************)
(* C16  In every call of the row-wise-reduction handler the operands       *)
(* conform: the left-hand side of y = LHS*x (A, or the transposed view of  *)
(* A for layout T) has as many columns as x has elements and as many rows  *)
(* as y has.                                                               *)
(***************************************************************************)
C16_RowWiseConformant ==
    \A i \in HandlerCalls :
       operation = "row-wise-reduction" =>
          LET o == calls[i + 1].statement.operands IN
          /\ o.LHS[2] = o.x[1]
          /\ o.LHS[1] = o.y[1]

(***************************************************************************)
(* C17  In every call of the matrix-product handler on (s0, s1, s2) the    *)
(* left factor as used is s0 x s1, the right factor as used s1 x s2 and C  *)
(* s0 x s2, and the qualifiers handed to the template are the two          *)
(* characters of the layout code of the pass.                              *)
(***************************************************************************)
C17_ProductConformant ==
    \A i \in HandlerCalls :
       operation = "matrix-product" =>
          LET o == calls[i + 1].statement.operands
              s == calls[i].sizes
          IN /\ o.LHS = << s[1], s[2] >>
             /\ o.RHS = << s[2], s[3] >>
             /\ o.C = << s[1], s[3] >>
             /\ calls[i + 1].other_params = Chars(layouts[layIdx])
             /\ Len(calls[i + 1].other_params) = 2

\* The handler of layout TN has run on a shape whose three sizes differ.
C17_Witness ==
    \E i \in HandlerCalls :
       /\ operation = "matrix-product" /\ layouts[layIdx] = "TN"
       /\ calls[i].sizes = << 64, 128, 192 >>
       /\ calls[i + 1].statement.operands.A = << 128, 64 >>

(***************************************************************************)
(* C18  A handler call makes one external call: the benchmark, with the    *)
(* template built from the parameterSet and no log file opened, whenever a *)
(* parameterSet is supplied, be it empty; the search when none is.         *)
(***************************************************************************)
C18_OneExternalCall ==
    \A i \in HandlerCalls :
       /\ Len(calls) = i + 1
       /\ IF calls[i].parameters # None
          THEN /\ calls[i + 1].fn = "benchmark"
               /\ calls[i + 1].parameters = calls[i].parameters.v
               /\ "archive" \notin DOMAIN calls[i + 1]
          ELSE calls[i + 1].fn = "genetic"

\* The combination the sweep stands at: lines 47, 63 and 123/136.
PassOperation == OperationOrder[opIdx]
PassLayout == IF HasLayouts(PassOperation) THEN Layouts(PassOperation, p)[layIdx] ELSE ""
LastSearch == CHOOSE i \in Calls("genetic") : \A j \in Calls("genetic") : j <= i

(***************************************************************************)
(* C19  A handler uses the values of its own pass: while a pass is in its  *)
(* search or header update, the search it entered was given the device,    *)
(* the datatype (operands, context and itemsize of the score), the         *)
(* operation (template, score) and the layout (operands, qualifiers) of    *)
(* the combination the sweep stands at; and every header update carries    *)
(* the device, datatype, operation, layout qualifiers and result of the    *)
(* search logged just before it.                                           *)
(***************************************************************************)
C19_NoCrossing ==
    /\ \A i \in Calls("genetic") :
          LET c == calls[i] IN
          /\ c.score.operation = PassOperation
          /\ c.template = template(PassOperation)
          /\ c.measure = perf_measure(PassOperation)
          /\ c.statement.ctx = c.device.id
          /\ c.score.itemsize = itemsize(c.statement.dtype)
          /\ c.statement.operands = Statement(PassOperation, c.statement.layout, c.score.sizes)
          /\ c.other_params # << >> => c.other_params = Chars(c.statement.layout)
    /\ \A i \in Calls("update_viennacl_headers") :
          /\ i > 1 /\ calls[i - 1].fn = "genetic"
          /\ calls[i].device = calls[i - 1].device
          /\ calls[i].datatype = calls[i - 1].statement.dtype
          /\ calls[i].operation = calls[i - 1].score.operation
          /\ calls[i].additional_parameters = Chars(calls[i - 1].statement.layout)
          /\ calls[i].profile = i - 1
    /\ pc \in { "search", "update", "updating" } =>
          /\ calls[LastSearch].device = PairDevice(pairIdx)
          /\ calls[LastSearch].statement.dtype = PairDatatype(pairIdx)
          /\ calls[LastSearch].statement.layout = PassLayout

\* The header update of the second layout of the second pair is under way,
\* after those of the first pair.
C19_Witness ==
    /\ pc = "updating" /\ pairIdx = 2 /\ layIdx = 2
    /\ Cardinality(Calls("update_viennacl_headers")) = 4
    /\ PairDevice(1) # PairDevice(2)

\* The range and the number of components the claim gives for an operation.
SamplerRange(op) ==
    CASE op \in { "vector-axpy", "reduction" } -> [low |-> 10, high |-> 100000, size |-> 1]
      [] op \in { "matrix-axpy", "row-wise-reduction" } -> [low |-> 5, high |-> 100, size |-> 2]
      [] op = "matrix-product" -> [low |-> 1, high |-> 40, size |-> 3]

(***************************************************************************)
(* C20  The shape sampler handed to every dataset sampler call does not    *)
(* fail and draws NDim(operation) components 64*u, u in the range of the   *)
(* operation, so every component is a positive multiple of 64.             *)
(***************************************************************************)
C20_SamplerValid ==
    \A i \in Calls("generate_dataset") :
       LET d == draw(calls[i].draw)
           r == SamplerRange(calls[i].draw)
       IN /\ d.exc = "none"
          /\ d.size = r.size /\ d.size = NDim(calls[i].draw)
          /\ d.low = r.low /\ d.high = r.high
          /\ 64 * d.low > 0

====
